---- MODULE Spec2Model ----
(***************************************************************************)
(* make_timestamps_srt.py: a Premiere XML sequence is turned into an SRT   *)
(* file whose captions are the capture timestamps of the clips of V1.      *)
(*                                                                         *)
(* Text is modelled as a sequence of one-character strings, so that strip, *)
(* startswith, int(), the filename patterns, strptime and the f-strings    *)
(* are computed character by character as the code computes them.          *)
(* A frame rate is held in thousandths of a frame per second (29.97 is     *)
(* 29970), and frames / fps is computed exactly over the rationals.        *)
(***************************************************************************)
EXTENDS Integers, Sequences, FiniteSets, TLC

VARIABLES
    pc,        \* where the run is
    argv,      \* TRUE when the sequence path was given on the command line
    doc,       \* the document at that path: its root, or Unparseable
    fps,       \* main: fps
    clips,     \* main: clips
    i,         \* main: the loop's i
    idx,       \* main: idx
    lines,     \* main: lines
    tc,        \* main: <<start_tc, end_tc>> of the clip in hand
    log,       \* run_exiftool: the invocations made for the clip in hand
    out,       \* run_exiftool: out
    dt,        \* main: dt, what run_exiftool returned
    fnseen,    \* run_exiftool: TRUE once the filename has been searched
    local_tz,  \* to_local_no_seconds: the offset read at line 76, in minutes
    caption,   \* main: caption
    exc,       \* the exception that ended the run, None if none did
    exitcode,  \* the exit status of the process, None while it runs
    outfile,   \* the text of the .srt file, None while it is not written
    frames     \* the frame count given to frames_to_tc_ms on its own

vars == <<pc, argv, doc, fps, clips, i, idx, lines, tc, log, out, dt, fnseen,
          local_tz, caption, exc, exitcode, outfile, frames>>

(* The element of a one-element set: Only({F(x) : x \in {e}}) is F(e) with  *)
(* e computed once.                                                        *)
Only(S) == CHOOSE x \in S : TRUE

(* Python's None, and the marker of an exception that leaves a function.   *)
(* Neither is a text: every text is a sequence of one-character strings.   *)
None == <<"<None>">>
Raise == <<"<raise>">>

---------------------------------------------------------------------------
(* Text primitives                                                         *)

Digits == <<"0", "1", "2", "3", "4", "5", "6", "7", "8", "9">>

IsDigit(c) == \E d \in 1..10 : Digits[d] = c

DigitVal(c) == (CHOOSE d \in 1..10 : Digits[d] = c) - 1

IsSpace(c) == c \in {" ", "\t", "\n", "\r"}

Tail2(s, n) == SubSeq(s, n, Len(s))

RECURSIVE LStrip(_)
LStrip(s) == IF s # <<>> /\ IsSpace(Head(s)) THEN LStrip(Tail(s)) ELSE s

RECURSIVE RStrip(_)
RStrip(s) ==
    IF s # <<>> /\ IsSpace(s[Len(s)]) THEN RStrip(SubSeq(s, 1, Len(s) - 1)) ELSE s

(* str.strip() *)
Strip(s) == RStrip(LStrip(s))

(* str.startswith / str.endswith *)
StartsWith(s, p) == Len(s) >= Len(p) /\ SubSeq(s, 1, Len(p)) = p

EndsWith(s, p) == Len(s) >= Len(p) /\ SubSeq(s, Len(s) - Len(p) + 1, Len(s)) = p

LowerChar(c) ==
    CASE c = "T" -> "t" [] c = "R" -> "r" [] c = "U" -> "u" [] c = "E" -> "e"
      [] c = "F" -> "f" [] c = "A" -> "a" [] c = "L" -> "l" [] c = "S" -> "s"
      [] OTHER -> c

(* str.lower(), over the letters the documents of the model use *)
Lower(s) == [k \in 1..Len(s) |-> LowerChar(s[k])]

RECURSIVE DigitsVal(_)
DigitsVal(s) ==
    IF s = <<>> THEN 0 ELSE 10 * DigitsVal(SubSeq(s, 1, Len(s) - 1)) + DigitVal(s[Len(s)])

AllDigits(s) == s # <<>> /\ \A k \in 1..Len(s) : IsDigit(s[k])

(* int(text): surrounding whitespace and one sign are allowed; anything    *)
(* else (None included) raises, which every caller catches.  The result is *)
(* <<v>> for the integer v, and <<>> when int() raises.                    *)
ParseInt(t) ==
    IF t = None THEN <<>>
    ELSE LET s == Strip(t)
             body == IF s # <<>> /\ Head(s) \in {"+", "-"} THEN Tail(s) ELSE s
         IN  IF ~AllDigits(body) THEN <<>>
             ELSE IF s # <<>> /\ Head(s) = "-" THEN <<0 - DigitsVal(body)>>
             ELSE <<DigitsVal(body)>>

RECURSIVE NatToStr(_)
NatToStr(n) ==
    IF n < 10 THEN <<Digits[n + 1]>>
    ELSE NatToStr(n \div 10) \o <<Digits[(n % 10) + 1]>>

RECURSIVE ZeroPad(_, _)
ZeroPad(s, w) == IF Len(s) >= w THEN s ELSE ZeroPad(<<"0">> \o s, w)

(* f"{n:0wd}": zero padding to width w, the sign counted in the width *)
FmtD(n, w) ==
    IF n < 0 THEN <<"-">> \o ZeroPad(NatToStr(0 - n), w - 1)
    ELSE ZeroPad(NatToStr(n), w)

(* f"{n}" *)
IntToStr(n) == FmtD(n, 1)

---------------------------------------------------------------------------
(* get_sequence_rate.  What Element.find returns is modelled as a sequence *)
(* of at most one element: <<>> when nothing is found, else <<e>>; what    *)
(* findtext returns is None or the text of the child.                      *)

TRUE_TXT == <<"t", "r", "u", "e">>

get_sequence_rate(root) ==
    LET rate == root.rate IN
    IF rate = <<>> THEN 25000
    ELSE LET p == ParseInt(rate[1].timebase)
             tb == IF p = <<>> THEN 25 ELSE p[1]
             ntsc == rate[1].ntsc
         IN  IF Lower(IF ntsc = None THEN <<>> ELSE ntsc) = TRUE_TXT
                   /\ tb \in {30, 60, 24}
             THEN CASE tb = 30 -> 29970
                    [] tb = 60 -> 59940
                    [] tb = 24 -> 23976
             ELSE tb * 1000

---------------------------------------------------------------------------
(* frames_to_tc_ms *)

(* int(x) of the rational n / d, d > 0: truncation towards zero *)
Trunc(n, d) == IF n >= 0 THEN n \div d ELSE 0 - ((0 - n) \div d)

(* round(x) of the rational n / d, n >= 0, d > 0: half to even *)
RoundHalfEvenNat(n, d) ==
    LET q == n \div d
        r == n % d
    IN  IF 2 * r < d THEN q
        ELSE IF 2 * r > d THEN q + 1
        ELSE IF q % 2 = 0 THEN q ELSE q + 1

RoundHalfEven(n, d) ==
    IF n >= 0 THEN RoundHalfEvenNat(n, d) ELSE 0 - RoundHalfEvenNat(0 - n, d)

frames_to_tc_ms(fr, rate) ==
    IF rate = 0 THEN Raise                      \* ZeroDivisionError
    ELSE LET n == IF rate > 0 THEN fr * 1000 ELSE 0 - (fr * 1000)
             d == IF rate > 0 THEN rate ELSE 0 - rate
             s == Trunc(n, d)                   \* int(seconds)
             ms == RoundHalfEven((n - s * d) * 1000, d)
             hh == s \div 3600
             mm == (s % 3600) \div 60
             ss == s % 60
         IN  FmtD(hh, 2) \o <<":">> \o FmtD(mm, 2) \o <<":">> \o FmtD(ss, 2)
               \o <<",">> \o FmtD(ms, 3)

---------------------------------------------------------------------------
(* url_to_path *)

FILE_SCHEME == <<"f", "i", "l", "e", ":", "/", "/">>

(* The least position >= k of s holding a character of cs, or Len(s) + 1 *)
RECURSIVE FindAny(_, _, _)
FindAny(s, cs, k) ==
    IF k > Len(s) THEN Len(s) + 1
    ELSE IF s[k] \in cs THEN k
    ELSE FindAny(s, cs, k + 1)

(* urlparse(url).path of a url that starts with file://: the network        *)
(* location runs to the first of / ? #, the path to the first of ? #.       *)
UrlParsePath(url) ==
    LET rest == Tail2(url, Len(FILE_SCHEME) + 1)
        a == FindAny(rest, {"/", "?", "#"}, 1)
        b == FindAny(rest, {"?", "#"}, a)
    IN  SubSeq(rest, a, b - 1)

(* The character a percent escape stands for; <<>> when the two characters *)
(* are not hexadecimal digits.  The documents of the model escape only the *)
(* space (%20) and the underscore (%5F).                                   *)
HexChar(a, b) ==
    CASE a = "2" /\ b = "0" -> <<" ">>
      [] a = "5" /\ b \in {"F", "f"} -> <<"_">>
      [] OTHER -> <<>>

(* urllib.parse.unquote *)
RECURSIVE Unquote(_)
Unquote(s) ==
    IF s = <<>> THEN <<>>
    ELSE IF Head(s) = "%" /\ Len(s) >= 3 /\ HexChar(s[2], s[3]) # <<>>
         THEN HexChar(s[2], s[3]) \o Unquote(Tail2(s, 4))
    ELSE <<Head(s)>> \o Unquote(Tail(s))

url_to_path(url) ==
    IF StartsWith(url, FILE_SCHEME) THEN Unquote(UrlParsePath(url)) ELSE url

---------------------------------------------------------------------------
(* gather_v1_clips.  The document root holds rate (see above) and video:   *)
(* <<>> when sequence/media/video is absent, else <<tracks>>, the sequence *)
(* of its tracks, each the sequence of its clipitems.  A clipitem holds    *)
(* the texts of its enabled, start, end and name children (None when       *)
(* absent) and its first file descendant, <<>> or <<[pathurl, name]>>.     *)

FALSE_TXT == <<"F", "A", "L", "S", "E">>

(* `x or ""` of a text or None *)
OrEmpty(x) == IF x = None THEN <<>> ELSE x

(* Mutant of Disabled: the text is compared as it stands, without strip() *)
Disabled_exact(ci) == ci.enabled = FALSE_TXT

(* Lines 127-129: the clipitem is skipped *)
Disabled(ci) ==
    LET enabled == ci.enabled
    IN  enabled # None /\ enabled # <<>> /\ Strip(enabled) = FALSE_TXT

(* Lines 132-134 *)
ClipPathurl(ci) == IF ci.file # <<>> THEN ci.file[1].pathurl ELSE None

ClipName(ci) == IF ci.file # <<>> THEN ci.file[1].name ELSE ci.name

(* Lines 127-147: the clips one clipitem appends, <<>> or one clip *)
ClipOf(ci) ==
    IF Disabled(ci) THEN <<>>
    ELSE IF ci.start = None \/ ci.end = None \/ ClipPathurl(ci) = None THEN <<>>
    ELSE IF ParseInt(ci.start) = <<>> \/ ParseInt(ci.end) = <<>> THEN <<>>
    ELSE << [start_frames |-> ParseInt(ci.start)[1],
             end_frames |-> ParseInt(ci.end)[1],
             path |-> url_to_path(ClipPathurl(ci)),
             name |-> OrEmpty(ClipName(ci))] >>

RECURSIVE Collect(_)
Collect(items) ==
    IF items = <<>> THEN <<>> ELSE ClipOf(Head(items)) \o Collect(Tail(items))

(* Mutant of InsertByStart: an unstable sort, which places a clip before   *)
(* the clips of equal key.                                                 *)
RECURSIVE InsertByStart_strict(_, _)
InsertByStart_strict(sorted, c) ==
    IF sorted = <<>> THEN <<c>>
    ELSE IF Head(sorted).start_frames < c.start_frames
         THEN <<Head(sorted)>> \o InsertByStart_strict(Tail(sorted), c)
    ELSE <<c>> \o sorted

(* list.sort(key = start_frames) is stable: a clip is placed after every   *)
(* clip already placed whose key is not greater.                           *)
RECURSIVE InsertByStart(_, _)
InsertByStart(sorted, c) ==
    IF sorted = <<>> THEN <<c>>
    ELSE IF Head(sorted).start_frames <= c.start_frames
         THEN <<Head(sorted)>> \o InsertByStart(Tail(sorted), c)
    ELSE <<c>> \o sorted

RECURSIVE SortByStart(_)
SortByStart(cs) ==
    IF cs = <<>> THEN <<>>
    ELSE InsertByStart(SortByStart(SubSeq(cs, 1, Len(cs) - 1)), cs[Len(cs)])

gather_v1_clips(root) ==
    IF root.video = <<>> THEN <<>>
    ELSE IF root.video[1] = <<>> THEN <<>>
    ELSE SortByStart(Collect(root.video[1][1]))

---------------------------------------------------------------------------
(* run_exiftool: the tags, the test of one answer, the filename patterns   *)

tags == << "QuickTime:CreateDate", "QuickTime:MediaCreateDate",
           "QuickTime:TrackCreateDate", "QuickTime:ModifyDate",
           "Keys:CreationDate", "System:FileCreateDate",
           "System:FileModifyDate" >>

ZERO_Y == <<"0", "0", "0", "0">>
ZERO_COLON == ZERO_Y \o <<":", "0", "0", ":", "0", "0", " ", "0", "0", ":", "0", "0", ":", "0", "0">>
ZERO_DASH == ZERO_Y \o <<"-", "0", "0", "-", "0", "0", " ", "0", "0", ":", "0", "0", ":", "0", "0">>

(* Lines 24-27: what `out` holds after one invocation.  ans is the text    *)
(* the tool printed, or Raise when it exits non-zero (CalledProcessError). *)
ExifOut(ans) == IF ans = Raise THEN <<>> ELSE Strip(ans)

(* Lines 29-33: the invocation's answer is returned *)
Accepted(o) ==
    /\ o # <<>>
    /\ ~EndsWith(o, <<":">>)
    /\ ~(StartsWith(o, ZERO_Y) \/ o = ZERO_COLON \/ o = ZERO_DASH)

(* path.split("/")[-1] *)
RECURSIVE BaseName(_)
BaseName(path) ==
    IF \E k \in 1..Len(path) : path[k] = "/"
    THEN BaseName(Tail(path))
    ELSE path

D2(s, k) == IsDigit(s[k]) /\ IsDigit(s[k + 1])

(* (20\d{2})[-_](\d{2})[-_](\d{2})[ _](\d{2})[:\.-](\d{2})[:\.-](\d{2}) at k *)
PatternAAt(fn, k) ==
    /\ k + 18 <= Len(fn)
    /\ fn[k] = "2" /\ fn[k + 1] = "0" /\ D2(fn, k + 2)
    /\ fn[k + 4] \in {"-", "_"} /\ D2(fn, k + 5)
    /\ fn[k + 7] \in {"-", "_"} /\ D2(fn, k + 8)
    /\ fn[k + 10] \in {" ", "_"} /\ D2(fn, k + 11)
    /\ fn[k + 13] \in {":", ".", "-"} /\ D2(fn, k + 14)
    /\ fn[k + 16] \in {":", ".", "-"} /\ D2(fn, k + 17)

(* (\d{2})-(\d{2})-(20\d{2})[ _](\d{2})[-](\d{2})[-](\d{2}) at k *)
PatternBAt(fn, k) ==
    /\ k + 18 <= Len(fn)
    /\ D2(fn, k) /\ fn[k + 2] = "-" /\ D2(fn, k + 3) /\ fn[k + 5] = "-"
    /\ fn[k + 6] = "2" /\ fn[k + 7] = "0" /\ D2(fn, k + 8)
    /\ fn[k + 10] \in {" ", "_"} /\ D2(fn, k + 11)
    /\ fn[k + 13] = "-" /\ D2(fn, k + 14)
    /\ fn[k + 16] = "-" /\ D2(fn, k + 17)

(* re.search: the leftmost position where the pattern matches, 0 if none *)
SearchA(fn) ==
    IF \E k \in 1..Len(fn) : PatternAAt(fn, k)
    THEN CHOOSE k \in 1..Len(fn) :
            PatternAAt(fn, k) /\ \A j \in 1..(k - 1) : ~PatternAAt(fn, j)
    ELSE 0

SearchB(fn) ==
    IF \E k \in 1..Len(fn) : PatternBAt(fn, k)
    THEN CHOOSE k \in 1..Len(fn) :
            PatternBAt(fn, k) /\ \A j \in 1..(k - 1) : ~PatternBAt(fn, j)
    ELSE 0

UTC_SUFFIX == <<":", "0", "0", "+", "0", "0", "0", "0">>

(* f"{y}-{mo}-{d} {H}:{M}:00+0000" *)
Stamp(y, mo, d, H, M) ==
    y \o <<"-">> \o mo \o <<"-">> \o d \o <<" ">> \o H \o <<":">> \o M \o UTC_SUFFIX

(* Lines 35-46: the filename fallback, a text or None *)
FilenameDate(path) ==
    LET fn == BaseName(path)
        a == SearchA(fn)
        b == SearchB(fn)
    IN  IF a # 0
        THEN Stamp(SubSeq(fn, a, a + 3), SubSeq(fn, a + 5, a + 6),
                   SubSeq(fn, a + 8, a + 9), SubSeq(fn, a + 11, a + 12),
                   SubSeq(fn, a + 14, a + 15))
        ELSE IF b # 0
        THEN Stamp(SubSeq(fn, b + 6, b + 9), SubSeq(fn, b, b + 1),
                   SubSeq(fn, b + 3, b + 4), SubSeq(fn, b + 11, b + 12),
                   SubSeq(fn, b + 14, b + 15))
        ELSE None

---------------------------------------------------------------------------
(* to_local_no_seconds.  datetime.strptime is modelled by the regular      *)
(* expression it builds from the format: a directive reads its field at    *)
(* position k and gives <<value, next position>>, or <<>> when the text    *)
(* does not match.  Every numeric directive of the four formats is         *)
(* followed by a literal, by %z or by the end, so taking the two-digit     *)
(* alternative whenever it matches is what the expression's own            *)
(* backtracking decides.                                                   *)

NAIVE == 100000     \* the %z group did not take part: tzinfo is None

IsDigitAt(s, k) == k <= Len(s) /\ IsDigit(s[k])

Num2(s, k) == 10 * DigitVal(s[k]) + DigitVal(s[k + 1])

(* Two digits with a value in lo..hi, else one digit of at least lo1 *)
TwoOrOne(s, k, lo, hi, lo1) ==
    IF IsDigitAt(s, k) /\ IsDigitAt(s, k + 1) /\ Num2(s, k) \in lo..hi
    THEN <<Num2(s, k), k + 2>>
    ELSE IF IsDigitAt(s, k) /\ DigitVal(s[k]) >= lo1 THEN <<DigitVal(s[k]), k + 1>>
    ELSE <<>>

RECURSIVE SkipSpaces(_, _)
SkipSpaces(s, k) == IF k <= Len(s) /\ IsSpace(s[k]) THEN SkipSpaces(s, k + 1) ELSE k

(* %z: [+-]\d\d:?[0-5]\d, or Z; the value is the offset in minutes *)
DirZ(s, k) ==
    IF k <= Len(s) /\ s[k] = "Z" THEN <<0, k + 1>>
    ELSE IF ~(k <= Len(s) /\ s[k] \in {"+", "-"}) THEN <<>>
    ELSE IF ~(IsDigitAt(s, k + 1) /\ IsDigitAt(s, k + 2)) THEN <<>>
    ELSE LET m == IF k + 3 <= Len(s) /\ s[k + 3] = ":" THEN k + 4 ELSE k + 3
             sign == IF s[k] = "-" THEN 0 - 1 ELSE 1
         IN  IF IsDigitAt(s, m) /\ IsDigitAt(s, m + 1) /\ DigitVal(s[m]) <= 5
             THEN <<sign * (60 * Num2(s, k + 1) + Num2(s, m)), m + 2>>
             ELSE <<>>

Directive(t, s, k) ==
    CASE t = "Y" -> IF \A j \in k..(k + 3) : IsDigitAt(s, j)
                    THEN <<100 * Num2(s, k) + Num2(s, k + 2), k + 4>> ELSE <<>>
      [] t = "m" -> TwoOrOne(s, k, 1, 12, 1)
      [] t = "d" -> IF TwoOrOne(s, k, 1, 31, 1) # <<>> THEN TwoOrOne(s, k, 1, 31, 1)
                    ELSE IF k <= Len(s) /\ s[k] = " " /\ IsDigitAt(s, k + 1)
                              /\ DigitVal(s[k + 1]) >= 1
                    THEN <<DigitVal(s[k + 1]), k + 2>> ELSE <<>>
      [] t = "H" -> TwoOrOne(s, k, 0, 23, 0)
      [] t = "M" -> TwoOrOne(s, k, 0, 59, 0)
      [] t = "S" -> TwoOrOne(s, k, 0, 61, 0)
      [] t = "z" -> DirZ(s, k)
      [] t = " " -> IF SkipSpaces(s, k) > k THEN <<0, SkipSpaces(s, k)>> ELSE <<>>
      [] OTHER -> IF k <= Len(s) /\ s[k] = t THEN <<0, k + 1>> ELSE <<>>

IsField(t) == t \in {"Y", "m", "d", "H", "M", "S", "z"}

(* The fields read from position k on by the rest of the format, <<acc>>,  *)
(* or <<>>: the whole text has to be consumed.                             *)
RECURSIVE Strp(_, _, _, _)
Strp(s, k, fmt, acc) ==
    IF fmt = <<>> THEN (IF k = Len(s) + 1 THEN <<acc>> ELSE <<>>)
    ELSE LET r == Directive(Head(fmt), s, k)
         IN  IF r = <<>> THEN <<>>
             ELSE Strp(s, r[2], Tail(fmt),
                       IF IsField(Head(fmt)) THEN [acc EXCEPT ![Head(fmt)] = r[1]] ELSE acc)

IsLeap(y) == y % 4 = 0 /\ (y % 100 # 0 \/ y % 400 = 0)

DaysInMonth(y, m) ==
    IF m = 2 THEN (IF IsLeap(y) THEN 29 ELSE 28)
    ELSE IF m \in {4, 6, 9, 11} THEN 30 ELSE 31

MINYEAR == 1
MAXYEAR == 9999

(* datetime.strptime(text, format): <<fields>>, or <<>> for ValueError     *)
(* (no match, or a value the datetime constructor refuses).                *)
Constructed(r) ==
    IF r = <<>> THEN <<>>
    ELSE IF r[1]["Y"] < MINYEAR \/ r[1]["d"] > DaysInMonth(r[1]["Y"], r[1]["m"])
              \/ r[1]["S"] > 59
              \/ (r[1]["z"] # NAIVE /\ (r[1]["z"] >= 1440 \/ r[1]["z"] <= 0 - 1440))
    THEN <<>>
    ELSE r

strptime(s, fmt) ==
    Only({ Constructed(r) :
             r \in { Strp(s, 1, fmt, [t \in {"Y", "m", "d", "H", "M", "S", "z"} |->
                                        IF t = "z" THEN NAIVE ELSE 0]) } })

fmts == << <<"Y", "-", "m", "-", "d", " ", "H", ":", "M", ":", "S", "z">>,
           <<"Y", "-", "m", "-", "d", " ", "H", ":", "M", "z">>,
           <<"Y", "-", "m", "-", "d", " ", "H", ":", "M", ":", "S">>,
           <<"Y", "-", "m", "-", "d", " ", "H", ":", "M">> >>

(* Lines 64-70: the formats are tried from the f-th on, the first that     *)
(* parses wins; <<>> when none does (dt stays None).                       *)
RECURSIVE ParseFrom(_, _)
ParseFrom(s, f) ==
    IF f > Len(fmts) THEN <<>>
    ELSE Only({ IF r # <<>> THEN r ELSE ParseFrom(s, f + 1) :
                  r \in {strptime(s, fmts[f])} })

(* The date k days after <<y, m, d>>, k in -2..2; the year may leave        *)
(* MINYEAR..MAXYEAR, which the caller turns into OverflowError.            *)
RECURSIVE AddDays(_, _)
AddDays(date, k) ==
    LET y == date[1]
        m == date[2]
        d == date[3]
    IN  IF k = 0 THEN date
        ELSE IF k > 0
        THEN AddDays(IF d < DaysInMonth(y, m) THEN <<y, m, d + 1>>
                     ELSE IF m < 12 THEN <<y, m + 1, 1>>
                     ELSE <<y + 1, 1, 1>>, k - 1)
        ELSE AddDays(IF d > 1 THEN <<y, m, d - 1>>
                     ELSE IF m > 1 THEN <<y, m - 1, DaysInMonth(y, m - 1)>>
                     ELSE <<y - 1, 12, 31>>, k + 1)

InRange(date) == date[1] >= MINYEAR /\ date[1] <= MAXYEAR

(* local_off: the offset from UTC, in minutes, of the zone that            *)
(* datetime.now().astimezone().tzinfo gives at the call.  The result is    *)
(* the text, None, or Raise (OverflowError: date value out of range, from  *)
(* astimezone, which no handler of the program catches).                   *)
(* Lines 73-78, for the fields f that strptime gave.  The years of the     *)
(* answers of the model have four digits, where every platform's %Y agrees.*)
Localize(f, local_off) ==
    LET off == IF f["z"] = NAIVE THEN 0 ELSE f["z"]
        u == f["H"] * 60 + f["M"] - off
        utc == AddDays(<<f["Y"], f["m"], f["d"]>>, u \div 1440)
        l == (u % 1440) + local_off
        loc == AddDays(utc, l \div 1440)
        hm == l % 1440
    IN  IF ~InRange(utc) \/ ~InRange(loc) THEN Raise
        ELSE FmtD(loc[1], 4) \o <<"-">> \o FmtD(loc[2], 2) \o <<"-">>
               \o FmtD(loc[3], 2) \o <<" ">> \o FmtD(hm \div 60, 2) \o <<":">>
               \o FmtD(hm % 60, 2)

to_local_no_seconds(dt_str, local_off) ==
    IF dt_str = None \/ dt_str = <<>> THEN None
    ELSE Only({ IF r = <<>> THEN None ELSE Localize(r[1], local_off) :
                  r \in {ParseFrom(dt_str, 1)} })

---------------------------------------------------------------------------
(* The inputs of a run: the documents, the answers of exiftool, the zones  *)

MaxItems == 2       \* clipitems on a track of a document of a run

(* A document is a record: wellformed says whether ET.parse accepts it,    *)
(* rate and video are what root.find gives for sequence/rate and for       *)
(* sequence/media/video.                                                   *)
Doc(rate, video) == [wellformed |-> TRUE, rate |-> rate, video |-> video]

Unparseable == [wellformed |-> FALSE, rate |-> <<>>, video |-> <<>>]

Text_0 == <<"0">>
Text_100 == <<"1", "0", "0">>
Text_250 == <<"2", "5", "0">>
Text_30 == <<"3", "0">>
Text_TRUE == <<"T", "R", "U", "E">>
Name_a == <<"a", ".", "m", "o", "v">>
Name_b == <<"b">>
(* the basename matches the first filename pattern once unquoted *)
Url_a == <<"f", "i", "l", "e", ":", "/", "/", "l", "o", "c", "a", "l", "h", "o", "s", "t", "/", "v", "/", "2", "0", "2", "5", "-", "0", "9", "-", "2", "9", "%", "2", "0", "2", "2", "-", "5", "1", "-", "3", "4", ".", "m", "o", "v">>
(* a plain path, whose basename matches neither pattern *)
Url_b == <<"/", "v", "/", "c", "l", "i", "p", ".", "m", "o", "v">>
(* the basename matches the second filename pattern only *)
Url_c == <<"/", "v", "/", "S", "_", "1", "0", "-", "0", "1", "-", "2", "0", "2", "5", " ", "0", "7", "-", "2", "0", "-", "3", "7", "_", "1", ".", "m", "p", "4">>

Item(enabled, start, end, name, file) ==
    [enabled |-> enabled, start |-> start, end |-> end, name |-> name, file |-> file]

File(pathurl, name) == <<[pathurl |-> pathurl, name |-> name]>>

RunItems ==
    { Item(None, Text_100, Text_250, None, File(Url_a, Name_a)),
      Item(Text_TRUE, Text_0, Text_100, Name_b, File(Url_b, None)),
      Item(None, Text_0, Text_30, None, File(Url_c, Name_b)),
      Item(FALSE_TXT, Text_0, Text_100, Name_b, File(Url_b, Name_b)) }

RECURSIVE SeqsUpTo(_, _)
SeqsUpTo(S, n) ==
    IF n = 0 THEN {<<>>}
    ELSE LET T == SeqsUpTo(S, n - 1)
         IN  T \cup {Append(t, x) : t \in {u \in T : Len(u) = n - 1}, x \in S}

Rate(timebase, ntsc) == <<[timebase |-> timebase, ntsc |-> ntsc]>>

RunRates == { <<>>, Rate(Text_0, None), Rate(Text_30, Text_TRUE) }

RunDocs ==
    {Unparseable}
      \cup {Doc(r, <<>>) : r \in RunRates}
      \cup {Doc(r, << <<t>> >>) : r \in RunRates, t \in SeqsUpTo(RunItems, MaxItems)}

Ans_empty == <<>>
Ans_blank == <<" ", "\n">>
Ans_zero == ZERO_DASH
Ans_colon == <<"Q", "u", "i", "c", "k", "T", "i", "m", "e", ":">>
Ans_date == <<"2", "0", "2", "5", "-", "0", "6", "-", "0", "1", " ", "1", "2", ":", "0", "0", ":", "0", "0", "+", "0", "0", "0", "0", "\n">>
Ans_odd == <<"2", "0", "2", "5", ":", "0", "6", ":", "0", "1", " ", "1", "2", ":", "0", "0", ":", "0", "0">>
Ans_last == <<"9", "9", "9", "9", "-", "1", "2", "-", "3", "1", " ", "2", "3", ":", "5", "9", ":", "5", "9">>

(* What one invocation of exiftool may answer: the text it prints, or      *)
(* Raise when it exits non-zero.                                           *)
Answers == {Raise, Ans_empty, Ans_blank, Ans_zero, Ans_colon, Ans_date, Ans_odd, Ans_last}

(* The offsets from UTC, in minutes, the process's zone may have: one west *)
(* and one east of UTC                                                     *)
LocalOffsets == {0 - 300, 60}

---------------------------------------------------------------------------
(* main *)

NO_DATE == <<"[", "N", "O", "-", "D", "A", "T", "E", "]", " ">>
ARROW == <<" ", "-", "-", ">", " ">>

(* "\n".join(ls) *)
RECURSIVE Join(_)
Join(ls) ==
    IF ls = <<>> THEN <<>>
    ELSE IF Len(ls) = 1 THEN ls[1]
    ELSE ls[1] \o <<"\n">> \o Join(Tail(ls))

Running == pc \in {"INIT", "LOOP", "EXIF", "CAPTION", "WRITE"}

Init ==
    /\ pc = "INIT"
    /\ argv \in BOOLEAN
    /\ doc \in RunDocs
    /\ fps = None /\ clips = <<>> /\ i = 0 /\ idx = 0 /\ lines = <<>>
    /\ tc = None /\ log = <<>> /\ out = None /\ dt = None /\ fnseen = FALSE
    /\ local_tz = 0 /\ caption = None /\ exc = None /\ exitcode = <<>>
    /\ outfile = None /\ frames = 0

(* Lines 155-157 *)
Usage ==
    /\ pc = "INIT" /\ ~argv
    /\ pc' = "USAGE" /\ exitcode' = <<1>>
    /\ UNCHANGED <<argv, doc, fps, clips, i, idx, lines, tc, log, out, dt, fnseen,
                   local_tz, caption, exc, outfile, frames>>

(* Line 165: ET.parse raises, nothing catches it, the interpreter exits 1 *)
ParseFailed ==
    /\ pc = "INIT" /\ argv /\ ~doc.wellformed
    /\ pc' = "PARSE_FAILED" /\ exc' = "ParseError" /\ exitcode' = <<1>>
    /\ UNCHANGED <<argv, doc, fps, clips, i, idx, lines, tc, log, out, dt, fnseen,
                   local_tz, caption, outfile, frames>>

(* Lines 159-177 *)
Parse ==
    /\ pc = "INIT" /\ argv /\ doc.wellformed
    /\ fps' = get_sequence_rate(doc)
    /\ clips' = gather_v1_clips(doc)
    /\ IF clips' = <<>>
       THEN pc' = "NO_CLIPS" /\ exitcode' = <<2>> /\ UNCHANGED <<i, idx, lines>>
       ELSE pc' = "LOOP" /\ lines' = <<>> /\ idx' = 1 /\ i' = 1 /\ UNCHANGED exitcode
    /\ UNCHANGED <<argv, doc, tc, log, out, dt, fnseen, local_tz, caption, exc,
                   outfile, frames>>

(* Lines 178-182: the two timecodes of clip i, then run_exiftool is entered *)
Timecodes ==
    /\ pc = "LOOP"
    /\ \E start_tc \in {frames_to_tc_ms(clips[i].start_frames, fps)} :
       \E end_tc \in {frames_to_tc_ms(clips[i].end_frames, fps)} :
           IF start_tc = Raise \/ end_tc = Raise
           THEN /\ pc' = "CRASHED" /\ exc' = "ZeroDivisionError" /\ exitcode' = <<1>>
                /\ UNCHANGED <<tc, log, out, fnseen>>
           ELSE /\ pc' = "EXIF" /\ tc' = <<start_tc, end_tc>>
                /\ log' = <<>> /\ out' = None /\ fnseen' = FALSE
                /\ UNCHANGED <<exc, exitcode>>
    /\ UNCHANGED <<argv, doc, fps, clips, i, idx, lines, dt, local_tz, caption,
                   outfile, frames>>

(* Mutant of Query: the accepted answer is kept but the loop goes on to    *)
(* the next tag instead of returning.                                      *)
Query_noreturn ==
    /\ pc = "EXIF" /\ Len(log) < Len(tags)
    /\ \E ans \in Answers :
         \E o \in {ExifOut(ans)} :
             /\ log' = Append(log, [tag |-> tags[Len(log) + 1], ok |-> Accepted(o)])
             /\ out' = o
             /\ dt' = (IF Accepted(o) THEN o ELSE dt)
             /\ pc' = (IF Len(log) + 1 = Len(tags) /\ dt' # None THEN "CAPTION" ELSE "EXIF")
    /\ UNCHANGED <<argv, doc, fps, clips, i, idx, lines, tc, fnseen, local_tz,
                   caption, exc, exitcode, outfile, frames>>

(* Lines 23-33: one turn of the loop over the tags, one invocation *)
Query ==
    /\ pc = "EXIF" /\ Len(log) < Len(tags)
    /\ \E ans \in Answers :
         \E o \in {ExifOut(ans)} :
             /\ log' = Append(log, [tag |-> tags[Len(log) + 1], ok |-> Accepted(o)])
             /\ IF Accepted(o)
                THEN out' = o /\ dt' = o /\ pc' = "CAPTION"
                ELSE /\ out' = (IF o # <<>> /\ ~EndsWith(o, <<":">>) THEN <<>> ELSE o)
                     /\ UNCHANGED <<dt, pc>>
    /\ UNCHANGED <<argv, doc, fps, clips, i, idx, lines, tc, fnseen, local_tz,
                   caption, exc, exitcode, outfile, frames>>

(* Lines 34-46: the loop over the tags ended without a return *)
FilenameFallback ==
    /\ pc = "EXIF" /\ Len(log) = Len(tags)
    /\ fnseen' = TRUE
    /\ dt' = FilenameDate(clips[i].path)
    /\ pc' = "CAPTION"
    /\ UNCHANGED <<argv, doc, fps, clips, i, idx, lines, tc, log, out, local_tz,
                   caption, exc, exitcode, outfile, frames>>

(* Lines 183-189: the caption, Raise when to_local_no_seconds raises *)
CaptionOf(d, name, off) ==
    IF d = None \/ d = <<>> THEN NO_DATE \o name
    ELSE Only({ IF local_fmt = Raise THEN Raise
                ELSE IF local_fmt # None /\ local_fmt # <<>> THEN local_fmt ELSE d :
                  local_fmt \in {to_local_no_seconds(d, off)} })

(* Lines 191-194 *)
CueLines(n, t, cap) == <<IntToStr(n), t[1] \o ARROW \o t[2], cap, <<>> >>

(* Mutant of BuildCue: the cue is put in front of the cues built so far *)
BuildCue_prepend ==
    /\ pc = "CAPTION"
    /\ \E off \in LocalOffsets :
         \E cap \in {CaptionOf(dt, clips[i].name, off)} :
             /\ local_tz' = (IF dt = None \/ dt = <<>> THEN local_tz ELSE off)
             /\ IF cap = Raise
                THEN /\ pc' = "CRASHED" /\ exc' = "OverflowError" /\ exitcode' = <<1>>
                     /\ UNCHANGED <<caption, lines, idx, i>>
                ELSE /\ caption' = cap
                     /\ lines' = CueLines(idx, tc, cap) \o lines
                     /\ idx' = idx + 1
                     /\ i' = i + 1
                     /\ pc' = (IF i = Len(clips) THEN "WRITE" ELSE "LOOP")
                     /\ UNCHANGED <<exc, exitcode>>
    /\ UNCHANGED <<argv, doc, fps, clips, tc, log, out, dt, fnseen, outfile, frames>>

(* Lines 183-201, and the loop's next turn or its end *)
BuildCue ==
    /\ pc = "CAPTION"
    /\ \E off \in LocalOffsets :
         \E cap \in {CaptionOf(dt, clips[i].name, off)} :
             /\ local_tz' = (IF dt = None \/ dt = <<>> THEN local_tz ELSE off)
             /\ IF cap = Raise
                THEN /\ pc' = "CRASHED" /\ exc' = "OverflowError" /\ exitcode' = <<1>>
                     /\ UNCHANGED <<caption, lines, idx, i>>
                ELSE /\ caption' = cap
                     /\ lines' = lines \o CueLines(idx, tc, cap)
                     /\ idx' = idx + 1
                     /\ i' = i + 1
                     /\ pc' = (IF i = Len(clips) THEN "WRITE" ELSE "LOOP")
                     /\ UNCHANGED <<exc, exitcode>>
    /\ UNCHANGED <<argv, doc, fps, clips, tc, log, out, dt, fnseen, outfile, frames>>

(* Lines 203-206: the file is written, main returns, the process exits 0 *)
Write ==
    /\ pc = "WRITE"
    /\ outfile' = Join(lines)
    /\ pc' = "SERIALIZED" /\ exitcode' = <<0>>
    /\ UNCHANGED <<argv, doc, fps, clips, i, idx, lines, tc, log, out, dt, fnseen,
                   local_tz, caption, exc, frames>>

Next ==
    \/ Usage
    \/ ParseFailed
    \/ Parse
    \/ Timecodes
    \/ Query
    \/ FilenameFallback
    \/ BuildCue
    \/ Write

Spec == Init /\ [][Next]_vars

---------------------------------------------------------------------------
(* get_sequence_rate on its own: every rate descriptor of RateDocs         *)

Text_24 == <<"2", "4">>
Text_25 == <<"2", "5">>
Text_60 == <<"6", "0">>
Text_50 == <<"5", "0">>
Text_m24 == <<"-", "2", "4">>
Text_abc == <<"a", "b", "c">>
Text_30sp == <<" ", "3", "0", " ">>
Text_2997 == <<"2", "9", ".", "9", "7">>
Text_true == <<"t", "r", "u", "e">>
Text_True == <<"T", "r", "u", "e">>

Timebases ==
    { None, <<>>, Text_abc, Text_2997, Text_0, Text_m24, Text_24, Text_25, Text_30,
      Text_30sp, Text_50, Text_60 }

NtscFlags == { None, <<>>, Text_TRUE, Text_true, Text_True, FALSE_TXT }

RateDocs ==
    {Doc(<<>>, <<>>)} \cup {Doc(Rate(tb, n), <<>>) : tb \in Timebases, n \in NtscFlags}

(* The variables of main that the functions taken on their own leave alone *)
MainIdle ==
    /\ argv = TRUE /\ i = 0 /\ idx = 0 /\ lines = <<>> /\ log = <<>> /\ out = None
    /\ dt = None /\ fnseen = FALSE /\ local_tz = 0 /\ caption = None /\ exc = None
    /\ exitcode = <<>> /\ outfile = None

InitRate ==
    /\ pc = "rate" /\ doc \in RateDocs
    /\ fps = None /\ clips = <<>> /\ tc = None /\ frames = 0
    /\ MainIdle

ApplyRate ==
    /\ pc = "rate"
    /\ fps' = get_sequence_rate(doc)
    /\ pc' = "rate_done"
    /\ UNCHANGED <<argv, doc, clips, i, idx, lines, tc, log, out, dt, fnseen,
                   local_tz, caption, exc, exitcode, outfile, frames>>

SpecRate == InitRate /\ [][ApplyRate]_vars

---------------------------------------------------------------------------
(* frames_to_tc_ms on its own: every frame count up to MaxFrames at every  *)
(* positive rate get_sequence_rate gives for RateDocs                      *)

MaxFrames == 1000

TcRates == {r \in {get_sequence_rate(d) : d \in RateDocs} : r > 0}

InitTc ==
    /\ pc = "tc" /\ frames \in 0..MaxFrames /\ fps \in TcRates
    /\ doc = Unparseable /\ clips = <<>> /\ tc = None
    /\ MainIdle

ApplyTc ==
    /\ pc = "tc"
    /\ tc' = frames_to_tc_ms(frames, fps)
    /\ pc' = "tc_done"
    /\ UNCHANGED <<argv, doc, fps, clips, i, idx, lines, log, out, dt, fnseen,
                   local_tz, caption, exc, exitcode, outfile, frames>>

SpecTc == InitTc /\ [][ApplyTc]_vars

---------------------------------------------------------------------------
(* gather_v1_clips on its own: every first track of at most MaxTrack       *)
(* clipitems of TrackItems                                                 *)

MaxTrack == 2

Text_5 == <<"5">>
Text_9 == <<"9">>
Text_2 == <<"2">>
Text_m3 == <<"-", "3">>
Text_x == <<"x">>
Text_7sp == <<" ", "7", " ">>
Text_false == <<"f", "a", "l", "s", "e">>
Text_FALSEsp == <<" ", "F", "A", "L", "S", "E", " ">>
Text_FALSEnl == <<"F", "A", "L", "S", "E", "\n">>

EnabledTexts ==
    { None, <<>>, Text_TRUE, FALSE_TXT, Text_false, Text_FALSEsp, Text_FALSEnl }

TrackItems ==
    {Item(e, Text_5, Text_9, Name_b, File(Url_b, Name_a)) : e \in EnabledTexts}
      \cup {Item(None, st, en, Name_b, File(Url_b, Name_a)) :
              st \in {None, Text_0, Text_m3, Text_5, Text_x, Text_7sp},
              en \in {None, Text_9, Text_2}}
      \cup {Item(None, Text_5, Text_9, n, f) :
              n \in {None, Name_b},
              f \in {<<>>, File(None, Name_a), File(Url_b, None), File(Url_a, Name_a)}}

(* A second track, which gather_v1_clips never looks at *)
OtherTrack == << Item(None, Text_0, Text_9, Name_b, File(Url_c, Name_b)) >>

ClipDocs ==
    {Doc(<<>>, <<>>), Doc(<<>>, << <<>> >>)}
      \cup {Doc(<<>>, << <<t>> >>) : t \in SeqsUpTo(TrackItems, MaxTrack)}
      \cup {Doc(<<>>, << <<t, OtherTrack>> >>) : t \in SeqsUpTo(TrackItems, 1)}

InitClips ==
    /\ pc = "gather" /\ doc \in ClipDocs
    /\ fps = None /\ clips = <<>> /\ tc = None /\ frames = 0
    /\ MainIdle

ApplyGather ==
    /\ pc = "gather"
    /\ clips' = gather_v1_clips(doc)
    /\ pc' = "gathered"
    /\ UNCHANGED <<argv, doc, fps, i, idx, lines, tc, log, out, dt, fnseen,
                   local_tz, caption, exc, exitcode, outfile, frames>>

SpecClips == InitClips /\ [][ApplyGather]_vars

---------------------------------------------------------------------------
(* Properties                                                              *)

IsSortedByStart(cs) ==
    \A k \in 1..(Len(cs) - 1) : cs[k].start_frames <= cs[k + 1].start_frames

IsPrefix(a, b) == Len(a) <= Len(b) /\ SubSeq(b, 1, Len(a)) = a

(* The clipitems of the first video track of a document, in document order *)
Track1(d) ==
    IF d.video = <<>> THEN <<>>
    ELSE IF d.video[1] = <<>> THEN <<>>
    ELSE d.video[1][1]

(* The clipitem has start, end and path, and start and end are integers *)
Complete(ci) ==
    /\ ci.start # None /\ ci.end # None
    /\ ci.file # <<>> /\ ci.file[1].pathurl # None
    /\ ParseInt(ci.start) # <<>> /\ ParseInt(ci.end) # <<>>

Count(sq, Test(_)) == Cardinality({k \in 1..Len(sq) : Test(sq[k])})

PriorityOrder ==
    << "QuickTime:CreateDate", "QuickTime:MediaCreateDate",
       "QuickTime:TrackCreateDate", "QuickTime:ModifyDate",
       "Keys:CreationDate", "System:FileCreateDate", "System:FileModifyDate" >>

(* C1: run_exiftool invokes the tool for the 7 tags in the fixed priority  *)
(* order, each at most once; no tag is queried after one whose answer was  *)
(* accepted; what it returns is the answer of the first accepted tag,      *)
(* which is non-empty and not a zero date; and the filename is searched    *)
(* only after all 7 answers were rejected.                                 *)
C1_PriorityChain ==
    /\ Len(log) <= 7
    /\ \A k \in 1..Len(log) : log[k].tag = PriorityOrder[k]
    /\ \A k \in 1..(Len(log) - 1) : ~log[k].ok
    /\ fnseen => (Len(log) = 7 /\ \A k \in 1..7 : ~log[k].ok)
    /\ pc = "CAPTION" =>
          IF \E k \in 1..Len(log) : log[k].ok
          THEN /\ ~fnseen
               /\ dt = out
               /\ out # <<>> /\ ~StartsWith(out, ZERO_Y)
          ELSE fnseen /\ Len(log) = 7

(* The third tag's answer was accepted after two rejections *)
C1_Witness ==
    pc = "CAPTION" /\ Len(log) = 3 /\ log[3].ok /\ ~log[1].ok /\ ~log[2].ok /\ dt = out

(* What the claim C2 says the caption of the clip in hand is, for the      *)
(* offset off: the marker, the normalized text, or the raw text when the   *)
(* normalizer gives nothing.                                               *)
C2_Expected(off) ==
    IF dt = None THEN NO_DATE \o clips[i].name
    ELSE IF to_local_no_seconds(dt, off) \in {None, Raise} THEN dt
    ELSE to_local_no_seconds(dt, off)

(* C2: once the resolver has returned for a clip, the clip's cue is        *)
(* appended with the caption the three-way rule gives (marker and display  *)
(* name, normalized text, or raw text), whatever the resolver returned:    *)
(* no failure of the resolution or of the normalization ends the run or    *)
(* drops the cue.                                                          *)
C2_CaptionAlwaysBuilt ==
    [][pc = "CAPTION" =>
          /\ pc' \in {"LOOP", "WRITE"}
          /\ caption' = C2_Expected(local_tz')
          /\ lines' = lines \o CueLines(idx, tc, caption')]_vars

(* C3: the cues built so far are, in order, the cues of the first clips of *)
(* the sorted clip list, numbered 1, 2, ... without gap or repeat, each    *)
(* with the two timecodes of its clip; when the run reaches serialization  *)
(* there is exactly one cue per clip and the file holds them; and a step   *)
(* never changes or removes a line already built.                          *)
C3_CuesSoFar ==
    pc \in {"LOOP", "EXIF", "CAPTION", "WRITE", "SERIALIZED", "CRASHED"} =>
        /\ IsSortedByStart(clips)
        /\ Len(lines) % 4 = 0 /\ Len(lines) \div 4 <= Len(clips)
        /\ \A k \in 1..(Len(lines) \div 4) :
              /\ lines[4 * k - 3] = IntToStr(k)
              /\ lines[4 * k - 2] = frames_to_tc_ms(clips[k].start_frames, fps) \o ARROW
                                      \o frames_to_tc_ms(clips[k].end_frames, fps)
              /\ lines[4 * k] = <<>>
        /\ pc \in {"WRITE", "SERIALIZED"} => Len(lines) = 4 * Len(clips)
        /\ pc = "SERIALIZED" => outfile = Join(lines)

C3_CueOrder == []C3_CuesSoFar /\ [][IsPrefix(lines, lines')]_vars

(* A run that serialized two cues from a document whose two clips are not  *)
(* in timeline order                                                       *)
C3_Witness ==
    /\ pc = "SERIALIZED" /\ Len(clips) = 2 /\ Len(lines) = 8
    /\ Collect(Track1(doc)) # clips

(* C4: the run ends in one of the terminal states, each with its exit      *)
(* code: no argument, exit 1; a parsed document without surviving clips,   *)
(* NO_CLIPS and exit 2; a parsed document with clips, SERIALIZED and exit  *)
(* 0; and without argument, after a parse failure and in NO_CLIPS no       *)
(* metadata query was made and no file was written.                        *)
C4_TerminalStates ==
    ~Running =>
        /\ ~argv => (pc = "USAGE" /\ exitcode = <<1>>)
        /\ (argv /\ ~doc.wellformed) => pc = "PARSE_FAILED"
        /\ (argv /\ doc.wellformed /\ clips = <<>>) => (pc = "NO_CLIPS" /\ exitcode = <<2>>)
        /\ (argv /\ doc.wellformed /\ clips # <<>>) => (pc = "SERIALIZED" /\ exitcode = <<0>>)
        /\ pc \in {"USAGE", "PARSE_FAILED", "NO_CLIPS"} => (log = <<>> /\ outfile = None)

(* C5: the clips gather_v1_clips returns are sorted by start_frames        *)
(* ascending, and the clips of equal start_frames are in the order their   *)
(* clipitems have in the document.                                         *)
C5_SortedStable ==
    pc = "gathered" =>
        LET src == Collect(Track1(doc))
        IN  /\ IsSortedByStart(clips)
            /\ Len(clips) = Len(src)
            /\ \A v \in {src[k].start_frames : k \in 1..Len(src)} :
                  LET AtV(c) == c.start_frames = v
                  IN  SelectSeq(clips, AtV) = SelectSeq(src, AtV)

(* Two clips came out in the other order than their clipitems *)
C5_Witness ==
    /\ pc = "gathered" /\ Len(clips) = 2
    /\ Collect(Track1(doc)) = <<clips[2], clips[1]>>
    /\ clips[1].start_frames < clips[2].start_frames

(* C6, as claimed: a clipitem of the first track that is complete is       *)
(* dropped if and only if its enabled text is exactly "FALSE"; a text that *)
(* differs from it by surrounding whitespace leaves the clip in.           *)
C6_ExactFalse ==
    pc = "gathered" =>
        LET Kept(ci) == Complete(ci) /\ ci.enabled # FALSE_TXT
        IN  Len(clips) = Count(Track1(doc), Kept)

(* C6, amended: a clipitem of the first track that is complete is dropped  *)
(* if and only if its enabled text, with the surrounding whitespace        *)
(* removed, is exactly "FALSE" (absent, "", "TRUE" and "false" leave it    *)
(* in).                                                                    *)
C6_StrippedFalse ==
    pc = "gathered" =>
        LET Kept(ci) == Complete(ci) /\ Strip(OrEmpty(ci.enabled)) # FALSE_TXT
        IN  Len(clips) = Count(Track1(doc), Kept)

(* A track with " FALSE " on one clipitem and "false" on the other: only   *)
(* the second one is kept                                                  *)
C6_Witness ==
    /\ pc = "gathered" /\ Len(Track1(doc)) = 2 /\ Len(clips) = 1
    /\ Track1(doc)[1].enabled = <<" ", "F", "A", "L", "S", "E", " ">>
    /\ Track1(doc)[2].enabled = <<"f", "a", "l", "s", "e">>

(* C7: every clip gather_v1_clips returns has start_frames >= 0 and        *)
(* end_frames >= start_frames.                                             *)
C7_FrameRange ==
    pc = "gathered" =>
        \A k \in 1..Len(clips) :
            clips[k].start_frames >= 0 /\ clips[k].end_frames >= clips[k].start_frames

(* The display name the claim C8 gives a clipitem *)
C8_Expected(ci) ==
    IF ci.file # <<>> /\ ci.file[1].name # None THEN ci.file[1].name
    ELSE IF ci.name # None THEN ci.name
    ELSE <<>>

(* C8: the display names of the clips are those of the surviving           *)
(* clipitems: the name of the file reference when present, else the        *)
(* clipitem's own name when present, else the empty text.                  *)
C8_DisplayName ==
    pc = "gathered" =>
        LET src == Track1(doc)
            Survives(ci) == ClipOf(ci) # <<>>
        IN  \A n \in {clips[k].name : k \in 1..Len(clips)}
                       \cup {C8_Expected(src[k]) : k \in 1..Len(src)} :
               LET Named(c) == c.name = n
                   Due(ci) == Survives(ci) /\ C8_Expected(ci) = n
               IN  Count(clips, Named) = Count(src, Due)

(* C9: for a frame count >= 0 and a rate the parser gives, the timecode is *)
(* HH:MM:SS,mmm: three digits of milliseconds after the comma, two digits  *)
(* of minutes and of seconds, each at most 59, at least two digits of      *)
(* hours, and HH*3600 + MM*60 + SS = floor(frames / rate).                 *)
C9_WellFormed ==
    pc = "tc_done" =>
        LET n == Len(tc)
        IN  /\ n >= 12
            /\ tc[n - 3] = "," /\ AllDigits(SubSeq(tc, n - 2, n))
            /\ tc[n - 6] = ":" /\ AllDigits(SubSeq(tc, n - 5, n - 4))
            /\ tc[n - 9] = ":" /\ AllDigits(SubSeq(tc, n - 8, n - 7))
            /\ AllDigits(SubSeq(tc, 1, n - 10))
            /\ DigitsVal(SubSeq(tc, n - 5, n - 4)) <= 59
            /\ DigitsVal(SubSeq(tc, n - 8, n - 7)) <= 59
            /\ DigitsVal(SubSeq(tc, 1, n - 10)) * 3600
                 + DigitsVal(SubSeq(tc, n - 8, n - 7)) * 60
                 + DigitsVal(SubSeq(tc, n - 5, n - 4)) = (frames * 1000) \div fps

(* The NTSC flag is true *)
C10_FlagTrue(n) ==
    n \in {<<"T", "R", "U", "E">>, <<"t", "r", "u", "e">>, <<"T", "r", "u", "e">>}

(* C10: with the NTSC flag true, timebase 24, 30, 60 give 23.976, 29.97,   *)
(* 59.94; any other integer timebase, and 24, 30, 60 without the flag,     *)
(* give the timebase itself; an absent rate descriptor or an absent or     *)
(* unparseable timebase gives 25.0; and the rate is always above 0.        *)
C10_RateMapping ==
    pc = "rate_done" =>
        /\ fps > 0
        /\ IF doc.rate = <<>> THEN fps = 25000
           ELSE LET tb == ParseInt(doc.rate[1].timebase)
                    flag == C10_FlagTrue(doc.rate[1].ntsc)
                IN  IF tb = <<>> THEN fps = 25000
                    ELSE IF flag /\ tb[1] = 24 THEN fps = 23976
                    ELSE IF flag /\ tb[1] = 30 THEN fps = 29970
                    ELSE IF flag /\ tb[1] = 60 THEN fps = 59940
                    ELSE fps = 1000 * tb[1]

====
